---- MODULE Spec2Model ----
(***************************************************************************)
(* The four presentation components of the library-assistant front end:   *)
(*   Onboarding     (src/unnamed/part_000)                                 *)
(*   ChatBar        (src/unnamed/part_001)                                 *)
(*   ChatMessage    (src/src/components/ChatMessage.tsx, lines 41-220)     *)
(*   FeedbackModal  (src/src/components/ChatMessage.tsx, lines 233-385)    *)
(* Each component instance owns its own useState cells and shares nothing  *)
(* with the others, so a behaviour follows ONE mounted instance: `mounted` *)
(* names it, and the cells of the other components keep their initial      *)
(* values.  One action is one event handler together with the re-render    *)
(* and the effects React runs after it.                                    *)
(***************************************************************************)
EXTENDS Integers, Sequences, FiniteSets, TLC

(***************************************************************************)
(* Bounds of the exploration (not program constants).                      *)
(***************************************************************************)
\* the user ticks individual checkboxes only among the first ToggleBound options
ToggleBound == 1
\* number of times the [open] effect may re-run in one behaviour
MaxEffectRuns == 4
\* number of fetch promises that may be unsettled at once
MaxInFlight == 2
\* longest feedback text typed into the modal
MaxTextLen == 2
\* highest star the user clicks or hovers in the modal (the code renders 5)
MaxStar == 2
\* longest draft the parent hands to the composer
MaxDraftLen == 1

(***************************************************************************)
(* ChatBar: the context catalog, part_001 lines 16-29.                     *)
(***************************************************************************)
CONTEXT_OPTIONS ==
  << [id |-> "blackstone -- commentaries v1", label |-> "Blackstone - Commentaries on the Laws of England, Vol. 1"],
     [id |-> "blackstone -- commentaries v2", label |-> "Blackstone - Commentaries on the Laws of England, Vol. 2"],
     [id |-> "blackstone -- commentaries v3", label |-> "Blackstone - Commentaries on the Laws of England, Vol. 3"],
     [id |-> "blackstone -- commentaries v4", label |-> "Blackstone - Commentaries on the Laws of England, Vol. 4"],
     [id |-> "De Lolme -- The Constitution of England", label |-> "De Lolme - The Constitution of England"],
     [id |-> "Filmer -- The Anarchy of a Limited or Mixed Monarchy", label |-> "Filmer - The Anarchy of a Limited or Mixed Monarchy"],
     [id |-> "Harrington -- The Commonwealth of Oceana", label |-> "Harrington - The Commonwealth of Oceana"],
     [id |-> "Hunton -- A Treatise of Monarchy", label |-> "Hunton - A Treatise of Monarchy"],
     [id |-> "Locke -- Second Treatise of Government", label |-> "Locke - Second Treatise of Government"],
     [id |-> "Montesquieu -- spirit of laws", label |-> "Montesquieu - The Spirit of Laws"],
     [id |-> "Rousseau -- The Social Contract", label |-> "Rousseau - The Social Contract"],
     [id |-> "Vattel -- The Law of Nations", label |-> "Vattel - The Law of Nations"] >>

\* CONTEXT_OPTIONS.map((o) => o.id)
CatalogIds == [i \in 1..Len(CONTEXT_OPTIONS) |-> CONTEXT_OPTIONS[i].id]

CatalogIdSet == {CONTEXT_OPTIONS[i].id : i \in 1..Len(CONTEXT_OPTIONS)}

\* the ids whose checkbox the user ticks one by one
ToggledIds == {CONTEXT_OPTIONS[i].id : i \in 1..ToggleBound}

\* a membership test that never finds the id
IncludesNever(arr, x) == FALSE

\* Array.prototype.includes
Includes(arr, x) == \E i \in 1..Len(arr) : arr[i] = x

\* the elements of an array, as a set
Elems(arr) == {arr[i] : i \in 1..Len(arr)}

(***************************************************************************)
(* Onboarding: the items of the two selects, part_000 lines 191-196 and   *)
(* 210-216.                                                                *)
(***************************************************************************)
OccupationItems == {"student", "teacher", "researcher", "professional", "librarian", "other"}

AgeRangeItems == {"Under 18", "18-24", "25-34", "35-44", "45-54", "55-64", "65+"}

\* new Date().toISOString() and navigator.userAgent: values of the environment
Now == "ts"

UserAgent == "ua"

(***************************************************************************)
(* ChatMessage: the messages the parent hands to the component.            *)
(***************************************************************************)
Messages ==
  { [id |-> "m1", role |-> "assistant", content |-> "Locke wrote the Second Treatise."],
    [id |-> "m2", role |-> "assistant", content |-> ""],
    [id |-> "m3", role |-> "user", content |-> "Who wrote it?"] }

\* an optional boolean prop: undefined, true or false
OptBool == {"undefined", "true", "false"}

\* window.location.href: a value of the environment
PageUrl == "href"

\* the origins of the promises of navigator.share and navigator.clipboard.writeText
PromiseKinds == {"share", "copy", "shareCopy", "reaskCopy"}

VARIABLES
  mounted,            \* the component instance this behaviour follows, "none" once unmounted
  \* ---- Onboarding (useState cells, part_000 lines 25-28)
  currentStep, consentGiven, occupation, ageRange,
  \* ---- ChatBar (part_001 lines 36-37, props line 31, document listeners)
  open, selected, hasOnContextChange, listeners, effectRuns, isStreaming,
  value,              \* the draft, a prop the parent owns (part_001 line 31)
  \* ---- ChatMessage (ChatMessage.tsx lines 41-43)
  message, isLastAssistantMessage, hasOnOpenFeedback, showFeedbackPrompt,
  thumbsState, showPrompt,
  hasOnPromptHandled,
  pending,            \* share and clipboard promises not yet settled, by origin
  \* ---- FeedbackModal (ChatMessage.tsx lines 233-239)
  isOpen, conversation, helpfulnessRating, hoveredHelpfulStar,
  citationRating, hoveredCitationStar, feedbackText,
  \* ---- the network
  inFlight,           \* fetch promises not yet settled
  \* ---- what the last step did, as seen from outside the component
  lastOp,             \* the handler that ran
  lastArg,            \* its argument ("" when it has none)
  calls,              \* the external calls it made, in order
  uncaught,           \* an exception or a rejection it let escape
  prevOp,             \* ChatBar: the handler that ran before that one
  prevArg,            \* ChatBar: and its argument
  selectedBefore,     \* ChatBar: `selected` before the last step
  selectedBefore2,    \* ChatBar: `selected` before the step before the last
  consentPosted,      \* Onboarding: a "consent" POST was sent in this mount
  demographicsPosted, \* Onboarding: a "demographics" POST was sent in this mount
  thumbsBefore,       \* ChatMessage: `thumbsState` before the last step
  lastEvent,          \* ChatMessage: the action of the last thumbs event sent, "none" before any
  dismissed,          \* ChatMessage: Dismiss or Give Feedback was clicked in this mount
  dismissedSinceShown \* ChatMessage: and the prompt was not set to show again since

onboardingVars == <<currentStep, consentGiven, occupation, ageRange,
                    consentPosted, demographicsPosted>>

chatBarState == <<open, listeners, effectRuns>>

chatBarVars == <<open, selected, hasOnContextChange, listeners, effectRuns, value, isStreaming,
                 prevOp, prevArg, selectedBefore, selectedBefore2>>

messageProps == <<message, isLastAssistantMessage, hasOnOpenFeedback, showFeedbackPrompt,
                  hasOnPromptHandled>>

messageVars == <<message, isLastAssistantMessage, hasOnOpenFeedback, showFeedbackPrompt,
                 thumbsState, showPrompt, thumbsBefore, hasOnPromptHandled,
                 pending, dismissed, dismissedSinceShown, lastEvent>>

modalFields == <<helpfulnessRating, hoveredHelpfulStar, citationRating, hoveredCitationStar, feedbackText>>

modalVars == <<isOpen, conversation, helpfulnessRating, hoveredHelpfulStar, citationRating, hoveredCitationStar, feedbackText>>

vars == <<mounted, currentStep, consentGiven, occupation, ageRange,
          open, selected, hasOnContextChange, listeners, effectRuns, value, isStreaming,
          message, isLastAssistantMessage, hasOnOpenFeedback, showFeedbackPrompt,
          thumbsState, showPrompt,
          isOpen, conversation, helpfulnessRating, hoveredHelpfulStar,
          citationRating, hoveredCitationStar, feedbackText,
          inFlight, lastOp, lastArg, calls, uncaught, prevOp, prevArg,
          selectedBefore, selectedBefore2, thumbsBefore,
          consentPosted, demographicsPosted,
          hasOnPromptHandled, pending, dismissed, dismissedSinceShown, lastEvent>>

(***************************************************************************)
(* External calls, as records of one shape.                                *)
(***************************************************************************)
Callback(name, arg) == [kind |-> "callback", name |-> name, arg |-> arg]

Fetch(url, body) == [kind |-> "fetch", name |-> url, arg |-> body]

Toast(level, text) == [kind |-> "toast", name |-> level, arg |-> text]

\* navigator.clipboard.writeText(text)
ClipboardWrite(text) == [kind |-> "clipboard", name |-> "writeText", arg |-> text]

\* navigator.share({ text })
NativeShare(text) == [kind |-> "share", name |-> "navigator.share", arg |-> [text |-> text]]

OfKind(cs, k) == SelectSeq(cs, LAMBDA c : c.kind = k)

Named(cs, k, n) == SelectSeq(cs, LAMBDA c : c.kind = k /\ c.name = n)

\* what a step records about itself
Did(op, arg, cs, esc) ==
  /\ lastOp' = op
  /\ lastArg' = arg
  /\ calls' = cs
  /\ uncaught' = esc

(***************************************************************************)
(* fetch: it either throws synchronously or returns a promise, which is    *)
(* settled later.  Every fetch of the repository is written                *)
(*     try { fetch(...).catch(() => {}); } catch (e) {}                    *)
(* so the statement always completes, whatever fetch does.                 *)
(***************************************************************************)
SyncOutcomes == {"returns", "throws"}

\* how a promise is settled
Settlements == {"fulfilled", "rejected"}

TryFetchNoCatch(sync) == IF sync = "throws" THEN "raised" ELSE "completed"

TryFetch(sync) ==
  IF sync = "throws"
  THEN "completed"     \* catch (e) {}
  ELSE "completed"     \* the promise, with .catch(() => {}) attached

\* the promise count after a fetch
Issued(sync) == IF sync = "returns" THEN inFlight + 1 ELSE inFlight

(***************************************************************************)
(* ChatBar, part_001.                                                      *)
(***************************************************************************)
\* the handlers one run of the effect creates (lines 58-65): function objects
\* of that run (gen), closed over the `open` of its render
Handlers(gen, op) ==
  { [type |-> "click", gen |-> gen, open |-> op],
    [type |-> "keydown", gen |-> gen, open |-> op] }

\* a cleanup that hands removeEventListener functions it never registered
EffectCleanupFresh(ls, gen) == ls \ {l \in ls : l.gen = gen + 1}

\* lines 68-71: document.removeEventListener of the run's own two handlers
EffectCleanup(ls, gen) == ls \ {l \in ls : l.gen = gen}

\* an effect that listens only while the panel is open
EffectSetupWhileOpen(ls, gen, op) == IF op THEN ls \cup Handlers(gen, op) ELSE ls

\* lines 66-67: document.addEventListener of the run's two handlers
EffectSetup(ls, gen, op) == ls \cup Handlers(gen, op)

\* setOpen (line 36), the re-render and the effect of lines 57-72, whose
\* dependency list is [open]: it re-runs only when `open` changed
setOpen(v) ==
  IF v = open
  THEN UNCHANGED chatBarState
  ELSE /\ effectRuns < MaxEffectRuns
       /\ open' = v
       /\ effectRuns' = effectRuns + 1
       /\ listeners' = EffectSetup(EffectCleanup(listeners, effectRuns), effectRuns + 1, v)

\* a filter with the comparison inverted: it keeps only the id
WithoutKeepingOnly(arr, id) == SelectSeq(arr, LAMBDA l : l = id)

\* Array.prototype.filter((l) => l !== id)
Without(arr, id) == SelectSeq(arr, LAMBDA l : l # id)

\* line 43
allSelectedWhenAny == Len(selected) > 0

allSelected == Len(selected) = Len(CONTEXT_OPTIONS)

ChatBarStep == mounted = "ChatBar"

\* the composer's last two steps, kept for the statements about two steps in a row
Remember ==
  /\ prevOp' = lastOp
  /\ prevArg' = lastArg
  /\ selectedBefore' = selected
  /\ selectedBefore2' = selectedBefore

othersUnchanged == UNCHANGED <<onboardingVars, messageVars, modalVars, inFlight>>

\* a toggle that also reports the selection to the parent
toggleOptionPropagating(id) ==
  /\ ChatBarStep /\ open
  /\ selected' = IF Includes(selected, id) THEN Without(selected, id) ELSE Append(selected, id)
  /\ Remember
  /\ Did("toggleOption", id, <<Callback("onContextChange", selected')>>, FALSE)
  /\ UNCHANGED <<mounted, chatBarState, hasOnContextChange, value, isStreaming>>
  /\ othersUnchanged

\* lines 39-41, from the checkbox of one option (lines 186-190)
toggleOption(id) ==
  /\ ChatBarStep /\ open
  /\ selected' = IF Includes(selected, id) THEN Without(selected, id) ELSE Append(selected, id)
  /\ Remember
  /\ Did("toggleOption", id, <<>>, FALSE)
  /\ UNCHANGED <<mounted, chatBarState, hasOnContextChange, value, isStreaming>>
  /\ othersUnchanged

\* a toggle-all that inverts the selection
toggleAllInverting ==
  /\ ChatBarStep /\ open
  /\ selected' = SelectSeq(CatalogIds, LAMBDA l : ~Includes(selected, l))
  /\ Remember
  /\ Did("toggleAll", "", <<>>, FALSE)
  /\ UNCHANGED <<mounted, chatBarState, hasOnContextChange, value, isStreaming>>
  /\ othersUnchanged

\* lines 44-46, from the checkbox or the button of the panel header (lines 170-173)
toggleAll ==
  /\ ChatBarStep /\ open
  /\ selected' = IF allSelected THEN <<>> ELSE CatalogIds
  /\ Remember
  /\ Did("toggleAll", "", <<>>, FALSE)
  /\ UNCHANGED <<mounted, chatBarState, hasOnContextChange, value, isStreaming>>
  /\ othersUnchanged

\* lines 48-51, from the Confirm Selection button (lines 198-203)
confirm ==
  /\ ChatBarStep /\ open
  /\ setOpen(FALSE)
  /\ Remember
  /\ Did("confirm", "",
         IF hasOnContextChange THEN <<Callback("onContextChange", selected)>> ELSE <<>>,
         FALSE)
  /\ UNCHANGED <<mounted, selected, hasOnContextChange, value, isStreaming>>
  /\ othersUnchanged

\* lines 91-94, the Books button: stopPropagation keeps the click from document
toggleOpen ==
  /\ ChatBarStep
  /\ setOpen(~open)
  /\ Remember
  /\ Did("toggleOpen", "", <<>>, FALSE)
  /\ UNCHANGED <<mounted, selected, hasOnContextChange, value, isStreaming>>
  /\ othersUnchanged

\* lines 58-62: l is the registered handler, closed over l.open;
\* wrapperRef.current is the mounted wrapper, `inside` is whether it contains e.target
handleClick(l, inside) ==
  IF l.open /\ ~inside THEN setOpen(FALSE) ELSE UNCHANGED chatBarState

\* an Escape that confirms the pending selection before closing
handleKeyConfirming(l, key) ==
  /\ IF key = "Escape" THEN setOpen(FALSE) ELSE UNCHANGED chatBarState
  /\ calls' = IF key = "Escape" THEN <<Callback("onContextChange", selected)>> ELSE <<>>

\* lines 63-65
handleKey(l, key) ==
  /\ IF key = "Escape" THEN setOpen(FALSE) ELSE UNCHANGED chatBarState
  /\ calls' = <<>>

\* a click that reaches document, on a target inside or outside the wrapper
DocumentClick(inside) ==
  /\ ChatBarStep
  /\ \E l \in listeners : l.type = "click" /\ handleClick(l, inside)
  /\ Remember
  /\ Did(IF inside THEN "clickInside" ELSE "clickOutside", "", <<>>, FALSE)
  /\ UNCHANGED <<mounted, selected, hasOnContextChange, value, isStreaming>>
  /\ othersUnchanged

Keys == {"Escape", "a"}

\* a key press that reaches document
DocumentKeyDown(key) ==
  /\ ChatBarStep
  /\ \E l \in listeners : l.type = "keydown" /\ handleKey(l, key)
  /\ Remember
  /\ lastOp' = "keydown" /\ lastArg' = key /\ uncaught' = FALSE
  /\ UNCHANGED <<mounted, selected, hasOnContextChange, value, isStreaming>>
  /\ othersUnchanged

\* the drafts the parent hands over: a text is the sequence of its characters
DraftChars == {"a"}

Drafts == UNION {[1..n -> DraftChars] : n \in 0..MaxDraftLen}

\* a key press in the textarea: e.key and e.shiftKey
TextareaKeys ==
  { [key |-> "Enter", shiftKey |-> FALSE],
    [key |-> "Enter", shiftKey |-> TRUE],
    [key |-> "a", shiftKey |-> FALSE] }

KeyLabel(e) ==
  CASE e.key = "Enter" /\ e.shiftKey -> "Shift+Enter"
    [] e.key = "Enter" /\ ~e.shiftKey -> "Enter"
    [] OTHER -> e.key

\* e.preventDefault()
PreventDefault == [kind |-> "event", name |-> "preventDefault", arg |-> ""]

\* a handler that sends only while nothing streams and the draft is not empty
onKeyDownWhenIdle(e) ==
  IF e.key = "Enter" /\ ~e.shiftKey /\ isStreaming # "true" /\ value # <<>>
  THEN <<PreventDefault, Callback("onSend", "")>>
  ELSE <<>>

\* a handler that sends on every Enter, with or without Shift
onKeyDownAnyEnter(e) ==
  IF e.key = "Enter" THEN <<PreventDefault, Callback("onSend", "")>> ELSE <<>>

\* lines 125-130: the calls of the textarea's onKeyDown
onKeyDown(e) ==
  IF e.key = "Enter" /\ ~e.shiftKey
  THEN <<PreventDefault, Callback("onSend", "")>>
  ELSE <<>>

\* the character the browser inserts as the default action of the key
Inserted(e) == IF e.key = "Enter" THEN "\n" ELSE e.key

\* line 124: the default action changes the text of the textarea (the caret is at
\* its end) and its change event runs onChange(e.target.value)
DefaultAction(e) == <<Callback("onChange", Append(value, Inserted(e)))>>

\* a key pressed in the textarea (lines 116-131): onKeyDown runs, then the
\* default action unless it was prevented.  The event also reaches handleKey
\* (lines 63-65), which acts on Escape only.  The draft is the `value` prop: the
\* component itself never changes it.
TextareaKeyDown(e) ==
  /\ ChatBarStep
  /\ Remember
  /\ Did("textareaKeyDown", KeyLabel(e),
         onKeyDown(e) \o (IF Named(onKeyDown(e), "event", "preventDefault") = <<>>
                          THEN DefaultAction(e) ELSE <<>>),
         FALSE)
  /\ UNCHANGED <<mounted, chatBarState, selected, hasOnContextChange, value, isStreaming>>
  /\ othersUnchanged

\* the parent re-renders the composer with another draft (line 123)
ParentSetsValue(v) ==
  /\ ChatBarStep
  /\ v # value
  /\ value' = v
  /\ Remember
  /\ Did("value", "", <<>>, FALSE)
  /\ UNCHANGED <<mounted, chatBarState, selected, hasOnContextChange, isStreaming>>
  /\ othersUnchanged

\* the parent re-renders the composer with another isStreaming (line 31)
ParentSetsIsStreaming(v) ==
  /\ ChatBarStep
  /\ v # isStreaming
  /\ isStreaming' = v
  /\ Remember
  /\ Did("isStreaming", "", <<>>, FALSE)
  /\ UNCHANGED <<mounted, chatBarState, selected, hasOnContextChange, value>>
  /\ othersUnchanged

\* a trailing control that always sends
trailingOnClickAlwaysSend(hasOnStop) == <<Callback("onSend", "")>>

\* lines 133-159: the calls of the trailing button's onClick; the Send button
\* is rendered when !isStreaming, the Stop button (onStop && onStop()) otherwise
trailingOnClick(hasOnStop) ==
  IF isStreaming # "true"
  THEN <<Callback("onSend", "")>>
  ELSE IF hasOnStop THEN <<Callback("onStop", "")>> ELSE <<>>

\* the aria-label of the button rendered (lines 139, 151), and whether the
\* parent passed the optional onStop
TrailingLabel(hasOnStop) ==
  CASE isStreaming # "true" -> "Send"
    [] isStreaming = "true" /\ hasOnStop -> "Stop"
    [] OTHER -> "Stop without onStop"

\* a click on the trailing control (lines 133-159)
ClickTrailing(hasOnStop) ==
  /\ ChatBarStep
  /\ Remember
  /\ Did("clickTrailing", TrailingLabel(hasOnStop), trailingOnClick(hasOnStop), FALSE)
  /\ UNCHANGED <<mounted, chatBarState, selected, hasOnContextChange, value, isStreaming>>
  /\ othersUnchanged

\* the parent removes the composer: React runs the effect's cleanup
UnmountChatBar ==
  /\ ChatBarStep
  /\ listeners' = EffectCleanup(listeners, effectRuns)
  /\ mounted' = "none"
  /\ Remember
  /\ Did("unmount", "", <<>>, FALSE)
  /\ UNCHANGED <<open, effectRuns, selected, hasOnContextChange, value, isStreaming>>
  /\ othersUnchanged

ChatBarNext ==
  \/ \E id \in ToggledIds : toggleOption(id)
  \/ toggleAll
  \/ confirm
  \/ toggleOpen
  \/ \E inside \in BOOLEAN : DocumentClick(inside)
  \/ \E key \in Keys : DocumentKeyDown(key)
  \/ \E e \in TextareaKeys : TextareaKeyDown(e)
  \/ \E v \in Drafts : ParentSetsValue(v)
  \/ \E v \in OptBool : ParentSetsIsStreaming(v)
  \/ \E hasOnStop \in BOOLEAN : ClickTrailing(hasOnStop)
  \/ UnmountChatBar

(***************************************************************************)
(* Onboarding, part_000.                                                   *)
(***************************************************************************)
OnboardingStep == mounted = "Onboarding"

onboardingFrame == UNCHANGED <<mounted, chatBarVars, messageVars, modalVars>>

ConsentBody == [type |-> "consent", consent |-> "accepted", ts |-> Now, userAgent |-> UserAgent]

DemographicsBody ==
  [type |-> "demographics", occupation |-> occupation, ageRange |-> ageRange,
   ts |-> Now, userAgent |-> UserAgent]

\* line 161: disabled={!consentGiven}
ConsentContinueDisabled == ~consentGiven

\* a button that is disabled only while both selects are empty
DemographicContinueDisabledWhenBothEmpty == occupation = "" /\ ageRange = ""

\* line 224: disabled={!occupation || !ageRange}
DemographicContinueDisabled == occupation = "" \/ ageRange = ""

\* line 148: onCheckedChange={(checked) => setConsentGiven(checked === true)}
CheckedStates == {"true", "false", "indeterminate"}

setConsentGiven(checked) ==
  /\ OnboardingStep /\ currentStep = 1
  /\ consentGiven' = (checked = "true")
  /\ Did("setConsentGiven", checked, <<>>, FALSE)
  /\ UNCHANGED <<currentStep, occupation, ageRange, inFlight, consentPosted, demographicsPosted>>
  /\ onboardingFrame

\* a handler that shows step 2 without sending the consent
handleConsentContinueSkippingPost(sync) ==
  IF consentGiven
  THEN /\ currentStep' = 2
       /\ UNCHANGED <<inFlight, consentPosted>>
       /\ Did("handleConsentContinue", "", <<>>, FALSE)
  ELSE /\ UNCHANGED <<currentStep, inFlight, consentPosted>>
       /\ Did("handleConsentContinue", "", <<>>, FALSE)

\* a handler without the test of line 33
handleConsentContinueUnguarded(sync) ==
  /\ inFlight' = Issued(sync) /\ Issued(sync) <= MaxInFlight
  /\ currentStep' = 2
  /\ consentPosted' = TRUE
  /\ Did("handleConsentContinue", "", <<Fetch("/api/onboarding", ConsentBody)>>, FALSE)

\* lines 32-45
handleConsentContinue(sync) ==
  IF consentGiven
  THEN /\ inFlight' = Issued(sync) /\ Issued(sync) <= MaxInFlight
       /\ currentStep' = IF TryFetch(sync) = "completed" THEN 2 ELSE currentStep
       /\ consentPosted' = TRUE
       /\ Did("handleConsentContinue", "", <<Fetch("/api/onboarding", ConsentBody)>>,
              TryFetch(sync) = "raised")
  ELSE /\ UNCHANGED <<currentStep, inFlight, consentPosted>>
       /\ Did("handleConsentContinue", "", <<>>, FALSE)

\* lines 159-166: the Continue button of step 1
ClickConsentContinue(sync) ==
  /\ OnboardingStep /\ currentStep = 1
  /\ ~ConsentContinueDisabled
  /\ handleConsentContinue(sync)
  /\ UNCHANGED <<consentGiven, occupation, ageRange, demographicsPosted>>
  /\ onboardingFrame

\* handleConsentContinue reached although the button is disabled: the handler
\* tests consentGiven itself (line 33)
ConsentContinueWhileDisabled(sync) ==
  /\ OnboardingStep /\ currentStep = 1
  /\ ConsentContinueDisabled
  /\ handleConsentContinue(sync)
  /\ UNCHANGED <<consentGiven, occupation, ageRange, demographicsPosted>>
  /\ onboardingFrame

\* line 186: <Select value={occupation} onValueChange={setOccupation}>
setOccupation(v) ==
  /\ OnboardingStep /\ currentStep = 2
  /\ occupation' = v
  /\ Did("setOccupation", v, <<>>, FALSE)
  /\ UNCHANGED <<currentStep, consentGiven, ageRange, inFlight, consentPosted, demographicsPosted>>
  /\ onboardingFrame

\* line 205: <Select value={ageRange} onValueChange={setAgeRange}>
setAgeRange(v) ==
  /\ OnboardingStep /\ currentStep = 2
  /\ ageRange' = v
  /\ Did("setAgeRange", v, <<>>, FALSE)
  /\ UNCHANGED <<currentStep, consentGiven, occupation, inFlight, consentPosted, demographicsPosted>>
  /\ onboardingFrame

\* a handler that finishes and then rewinds the wizard
handleDemographicContinueRewinding(sync) ==
  /\ inFlight' = Issued(sync) /\ Issued(sync) <= MaxInFlight
  /\ currentStep' = 1
  /\ demographicsPosted' = TRUE
  /\ Did("handleDemographicContinue", "",
         <<Fetch("/api/onboarding", DemographicsBody), Callback("onComplete", "")>>, FALSE)

\* a handler that finishes before it reports
handleDemographicContinueEarly(sync) ==
  /\ inFlight' = Issued(sync) /\ Issued(sync) <= MaxInFlight
  /\ UNCHANGED currentStep
  /\ demographicsPosted' = TRUE
  /\ Did("handleDemographicContinue", "",
         <<Callback("onComplete", ""), Fetch("/api/onboarding", DemographicsBody)>>, FALSE)

\* lines 47-58
handleDemographicContinue(sync) ==
  /\ inFlight' = Issued(sync) /\ Issued(sync) <= MaxInFlight
  /\ UNCHANGED currentStep
  /\ demographicsPosted' = TRUE
  /\ Did("handleDemographicContinue", "",
         <<Fetch("/api/onboarding", DemographicsBody)>>
           \o (IF TryFetch(sync) = "completed" THEN <<Callback("onComplete", "")>> ELSE <<>>),
         TryFetch(sync) = "raised")

\* lines 222-229: the Continue to Library button of step 2
ClickDemographicContinue(sync) ==
  /\ OnboardingStep /\ currentStep = 2
  /\ ~DemographicContinueDisabled
  /\ handleDemographicContinue(sync)
  /\ UNCHANGED <<consentGiven, occupation, ageRange, consentPosted>>
  /\ onboardingFrame

OnboardingNext ==
  \/ \E checked \in CheckedStates : setConsentGiven(checked)
  \/ \E sync \in SyncOutcomes : ClickConsentContinue(sync)
  \/ \E sync \in SyncOutcomes : ConsentContinueWhileDisabled(sync)
  \/ \E v \in OccupationItems : setOccupation(v)
  \/ \E v \in AgeRangeItems : setAgeRange(v)
  \/ \E sync \in SyncOutcomes : ClickDemographicContinue(sync)

(***************************************************************************)
(* ChatMessage, ChatMessage.tsx lines 41-220.                              *)
(***************************************************************************)
\* line 121: a user message renders no action buttons
MessageStep == mounted = "ChatMessage" /\ message.role = "assistant"

messageFrame == UNCHANGED <<mounted, onboardingVars, chatBarVars, modalVars, messageProps>>

\* a prompt the parent has to ask for: showFeedbackPrompt ?? false
PromptVisibleWhenRequested ==
  isLastAssistantMessage /\ hasOnOpenFeedback /\ showFeedbackPrompt = "true" /\ showPrompt

\* line 199
PromptVisible ==
  isLastAssistantMessage /\ hasOnOpenFeedback /\ showFeedbackPrompt # "false" /\ showPrompt

RemoveBody(type) == [action |-> "remove", type |-> type, messageId |-> message.id]

ThumbBody(action) == [action |-> action, messageId |-> message.id, message |-> message.content]

\* a toggle-off that keeps the prompt and reports nothing
handleThumbsUpSilentOff(sync) ==
  IF thumbsState = "up"
  THEN /\ thumbsState' = "null"
       /\ UNCHANGED <<showPrompt, inFlight>>
       /\ Did("handleThumbsUp", "", <<Toast("success", "Feedback removed")>>, FALSE)
  ELSE /\ thumbsState' = "up"
       /\ showPrompt' = TRUE
       /\ inFlight' = Issued(sync) /\ Issued(sync) <= MaxInFlight
       /\ Did("handleThumbsUp", "",
              <<Toast("success", "Thanks for the positive feedback!"),
                Fetch("/api/feedback", ThumbBody("up"))>>, FALSE)

\* lines 71-87
handleThumbsUp(sync) ==
  /\ inFlight' = Issued(sync) /\ Issued(sync) <= MaxInFlight
  /\ IF thumbsState = "up"
     THEN /\ thumbsState' = "null"
          /\ showPrompt' = FALSE
          /\ Did("handleThumbsUp", "",
                 <<Toast("success", "Feedback removed"),
                   Fetch("/api/feedback", RemoveBody("thumbs_up"))>>,
                 TryFetch(sync) = "raised")
     ELSE /\ thumbsState' = "up"
          /\ showPrompt' = TRUE
          /\ Did("handleThumbsUp", "",
                 <<Toast("success", "Thanks for the positive feedback!"),
                   Fetch("/api/feedback", ThumbBody("up"))>>,
                 TryFetch(sync) = "raised")

\* a toggle-off that reports the removal and keeps the thumb
handleThumbsDownKeepingState(sync) ==
  /\ inFlight' = Issued(sync) /\ Issued(sync) <= MaxInFlight
  /\ IF thumbsState = "down"
     THEN /\ UNCHANGED thumbsState
          /\ showPrompt' = FALSE
          /\ Did("handleThumbsDown", "",
                 <<Toast("success", "Feedback removed"),
                   Fetch("/api/feedback", RemoveBody("thumbs_down"))>>, FALSE)
     ELSE /\ thumbsState' = "down"
          /\ showPrompt' = TRUE
          /\ Did("handleThumbsDown", "",
                 <<Toast("success", "Thanks for your feedback"),
                   Fetch("/api/feedback", ThumbBody("down"))>>, FALSE)

\* a switch that first withdraws the opposite thumb
handleThumbsDownWithdrawing(sync) ==
  /\ inFlight' = Issued(sync) /\ Issued(sync) <= MaxInFlight
  /\ IF thumbsState = "down"
     THEN /\ thumbsState' = "null"
          /\ showPrompt' = FALSE
          /\ Did("handleThumbsDown", "",
                 <<Toast("success", "Feedback removed"),
                   Fetch("/api/feedback", RemoveBody("thumbs_down"))>>, FALSE)
     ELSE /\ thumbsState' = "down"
          /\ showPrompt' = TRUE
          /\ Did("handleThumbsDown", "",
                 <<Toast("success", "Thanks for your feedback")>>
                   \o (IF thumbsState = "up"
                       THEN <<Fetch("/api/feedback", RemoveBody("thumbs_up"))>> ELSE <<>>)
                   \o <<Fetch("/api/feedback", ThumbBody("down"))>>, FALSE)

\* lines 89-105
handleThumbsDown(sync) ==
  /\ inFlight' = Issued(sync) /\ Issued(sync) <= MaxInFlight
  /\ IF thumbsState = "down"
     THEN /\ thumbsState' = "null"
          /\ showPrompt' = FALSE
          /\ Did("handleThumbsDown", "",
                 <<Toast("success", "Feedback removed"),
                   Fetch("/api/feedback", RemoveBody("thumbs_down"))>>,
                 TryFetch(sync) = "raised")
     ELSE /\ thumbsState' = "down"
          /\ showPrompt' = TRUE
          /\ Did("handleThumbsDown", "",
                 <<Toast("success", "Thanks for your feedback")>>
                   \o <<Fetch("/api/feedback", ThumbBody("down"))>>,
                 TryFetch(sync) = "raised")

\* the promises of the component that are not settled, fetches included
Unsettled ==
  inFlight + pending["share"] + pending["copy"] + pending["shareCopy"] + pending["reaskCopy"]

\* the action of the last thumbs event among the calls of a step
EventSent(cs) ==
  LET sent == OfKind(cs, "fetch")
  IN  IF sent = <<>> THEN lastEvent ELSE sent[Len(sent)].arg.action

\* lines 145-153: the thumbs-up button
ClickThumbsUp(sync) ==
  /\ MessageStep
  /\ sync = "returns" => Unsettled < MaxInFlight
  /\ handleThumbsUp(sync)
  /\ thumbsBefore' = thumbsState
  /\ lastEvent' = EventSent(calls')
  /\ dismissedSinceShown' = (thumbsState = "up" /\ dismissedSinceShown)
  /\ UNCHANGED <<pending, dismissed>>
  /\ messageFrame

\* lines 155-163: the thumbs-down button
ClickThumbsDown(sync) ==
  /\ MessageStep
  /\ sync = "returns" => Unsettled < MaxInFlight
  /\ handleThumbsDown(sync)
  /\ thumbsBefore' = thumbsState
  /\ lastEvent' = EventSent(calls')
  /\ dismissedSinceShown' = (thumbsState = "down" /\ dismissedSinceShown)
  /\ UNCHANGED <<pending, dismissed>>
  /\ messageFrame

\* window.location.href + "\n\n" + shareText, as the sequence of its three pieces
ShareString(shareText) == <<PageUrl, "\n\n", shareText>>

\* lines 49-52: writeText either throws (navigator.clipboard may be undefined)
\* or returns a promise; nothing catches the one or the other
handleCopy(clip) ==
  IF clip = "throws"
  THEN /\ UNCHANGED pending
       /\ Did("handleCopy", "", <<ClipboardWrite(message.content)>>, TRUE)
  ELSE /\ Unsettled < MaxInFlight
       /\ pending' = [pending EXCEPT !["copy"] = @ + 1]
       /\ Did("handleCopy", "",
              <<ClipboardWrite(message.content), Toast("success", "Copied to clipboard")>>,
              FALSE)

\* lines 54-69: hasShare is the test of line 56, share the outcome of the call of
\* navigator.share, clip the outcome of the call of writeText
handleShare(hasShare, share, clip) ==
  IF hasShare /\ share = "returns"
  THEN /\ Unsettled < MaxInFlight
       /\ pending' = [pending EXCEPT !["share"] = @ + 1]
       /\ Did("handleShare", "native",
              <<NativeShare(message.content), Toast("success", "Opened share dialog")>>,
              FALSE)
  ELSE LET tried == IF hasShare THEN <<NativeShare(message.content)>> ELSE <<>>
       IN  IF clip = "throws"
           THEN /\ UNCHANGED pending
                /\ Did("handleShare", "fallback",
                       tried \o <<ClipboardWrite(ShareString(message.content))>>, TRUE)
           ELSE /\ Unsettled < MaxInFlight
                /\ pending' = [pending EXCEPT !["shareCopy"] = @ + 1]
                /\ Did("handleShare", "fallback",
                       tried \o <<ClipboardWrite(ShareString(message.content))>>, FALSE)

\* lines 107-117: hasOnReask is the test of line 108 on the prop of the render
\* the click happens in, clip the outcome of the call of writeText
handleReask(hasOnReask, clip) ==
  IF hasOnReask
  THEN /\ UNCHANGED pending
       /\ Did("handleReask", "",
              <<Callback("onReask", message.content),
                Toast("success", "Message copied to input")>>, FALSE)
  ELSE IF clip = "throws"
       THEN /\ UNCHANGED pending
            /\ Did("handleReask", "", <<ClipboardWrite(message.content)>>, TRUE)
       ELSE /\ Unsettled < MaxInFlight
            /\ pending' = [pending EXCEPT !["reaskCopy"] = @ + 1]
            /\ Did("handleReask", "", <<ClipboardWrite(message.content)>>, FALSE)

\* what the buttons below leave alone
actionFrame ==
  /\ thumbsBefore' = thumbsState
  /\ UNCHANGED <<thumbsState, showPrompt, dismissed, dismissedSinceShown, inFlight, lastEvent>>
  /\ messageFrame

\* lines 177-185: the copy button
ClickCopy(clip) ==
  /\ MessageStep
  /\ handleCopy(clip)
  /\ actionFrame

\* lines 167-175: the share button
ClickShare(hasShare, share, clip) ==
  /\ MessageStep
  /\ handleShare(hasShare, share, clip)
  /\ actionFrame

\* lines 187-195: the re-ask button
ClickReask(hasOnReask, clip) ==
  /\ MessageStep
  /\ handleReask(hasOnReask, clip)
  /\ actionFrame

\* the reactions attached to each promise: .catch(() => {}) on navigator.share
\* (line 58), none on the copy (line 50), .then and .catch on the share fallback
\* (lines 64-68), .then alone on the re-ask fallback (lines 113-115)
Reaction(kind, result) ==
  CASE kind = "shareCopy" /\ result = "fulfilled" ->
         <<Toast("success", "Share text copied to clipboard")>>
    [] kind = "shareCopy" /\ result = "rejected" ->
         <<Toast("error", "Unable to copy share text")>>
    [] kind = "reaskCopy" /\ result = "fulfilled" ->
         <<Toast("success", "Message copied to clipboard")>>
    [] OTHER -> <<>>

\* a rejection nothing handles
Unhandled(kind, result) == result = "rejected" /\ kind \in {"copy", "reaskCopy"}

SettledOp(kind) ==
  CASE kind = "share" -> "shareSettled"
    [] kind = "copy" -> "copySettled"
    [] kind = "shareCopy" -> "shareCopySettled"
    [] kind = "reaskCopy" -> "reaskCopySettled"

\* the environment settles a promise of navigator.share or of writeText
PromiseSettles(kind, result) ==
  /\ mounted = "ChatMessage"
  /\ pending[kind] > 0
  /\ pending' = [pending EXCEPT ![kind] = @ - 1]
  /\ Did(SettledOp(kind), result, Reaction(kind, result), Unhandled(kind, result))
  /\ thumbsBefore' = thumbsState
  /\ UNCHANGED <<thumbsState, showPrompt, dismissed, dismissedSinceShown, inFlight, lastEvent>>
  /\ messageFrame

\* a Dismiss that notifies the parent and leaves the prompt on screen
DismissKeeping ==
  /\ MessageStep /\ PromptVisible
  /\ dismissed' = TRUE
  /\ dismissedSinceShown' = TRUE
  /\ Did("dismiss", "",
         IF hasOnPromptHandled THEN <<Callback("onPromptHandled", "")>> ELSE <<>>, FALSE)
  /\ thumbsBefore' = thumbsState
  /\ UNCHANGED <<thumbsState, showPrompt, pending, inFlight, lastEvent>>
  /\ messageFrame

\* line 207: the Dismiss button of the prompt, rendered while the prompt is
Dismiss ==
  /\ MessageStep /\ PromptVisible
  /\ showPrompt' = FALSE
  /\ dismissed' = TRUE
  /\ dismissedSinceShown' = TRUE
  /\ Did("dismiss", "",
         IF hasOnPromptHandled THEN <<Callback("onPromptHandled", "")>> ELSE <<>>, FALSE)
  /\ thumbsBefore' = thumbsState
  /\ UNCHANGED <<thumbsState, pending, inFlight, lastEvent>>
  /\ messageFrame

\* a Give Feedback that notifies the parent before it opens the modal
GiveFeedbackNotifyingFirst ==
  /\ MessageStep /\ PromptVisible
  /\ showPrompt' = FALSE
  /\ dismissed' = TRUE
  /\ dismissedSinceShown' = TRUE
  /\ Did("giveFeedback", "",
         (IF hasOnPromptHandled THEN <<Callback("onPromptHandled", "")>> ELSE <<>>)
           \o (IF hasOnOpenFeedback THEN <<Callback("onOpenFeedback", "")>> ELSE <<>>),
         FALSE)
  /\ thumbsBefore' = thumbsState
  /\ UNCHANGED <<thumbsState, pending, inFlight, lastEvent>>
  /\ messageFrame

\* line 210: the Give Feedback button of the prompt
GiveFeedback ==
  /\ MessageStep /\ PromptVisible
  /\ showPrompt' = FALSE
  /\ dismissed' = TRUE
  /\ dismissedSinceShown' = TRUE
  /\ Did("giveFeedback", "",
         (IF hasOnOpenFeedback THEN <<Callback("onOpenFeedback", "")>> ELSE <<>>)
           \o (IF hasOnPromptHandled THEN <<Callback("onPromptHandled", "")>> ELSE <<>>),
         FALSE)
  /\ thumbsBefore' = thumbsState
  /\ UNCHANGED <<thumbsState, pending, inFlight, lastEvent>>
  /\ messageFrame

\* the parent changes the showFeedbackPrompt prop; the effect of lines 45-47,
\* whose dependency list is [showFeedbackPrompt], runs after the re-render
ParentSetsShowFeedbackPrompt(v) ==
  /\ mounted = "ChatMessage"
  /\ v # showFeedbackPrompt
  /\ showFeedbackPrompt' = v
  /\ showPrompt' = IF v = "true" THEN TRUE ELSE showPrompt
  /\ dismissedSinceShown' = IF v = "true" THEN FALSE ELSE dismissedSinceShown
  /\ Did("showFeedbackPrompt", v, <<>>, FALSE)
  /\ thumbsBefore' = thumbsState
  /\ UNCHANGED <<mounted, onboardingVars, chatBarVars, modalVars, inFlight>>
  /\ UNCHANGED <<message, isLastAssistantMessage, hasOnOpenFeedback, hasOnPromptHandled,
                 thumbsState, pending, dismissed, lastEvent>>

MessageNext ==
  \/ \E sync \in SyncOutcomes : ClickThumbsUp(sync)
  \/ \E sync \in SyncOutcomes : ClickThumbsDown(sync)
  \/ \E clip \in SyncOutcomes : ClickCopy(clip)
  \/ \E hasShare \in BOOLEAN, share, clip \in SyncOutcomes : ClickShare(hasShare, share, clip)
  \/ \E hasOnReask \in BOOLEAN, clip \in SyncOutcomes : ClickReask(hasOnReask, clip)
  \/ \E kind \in PromiseKinds, result \in Settlements : PromiseSettles(kind, result)
  \/ Dismiss
  \/ GiveFeedback
  \/ \E v \in OptBool : ParentSetsShowFeedbackPrompt(v)

(***************************************************************************)
(* FeedbackModal, ChatMessage.tsx lines 233-385.  A text is the sequence   *)
(* of its characters.                                                      *)
(***************************************************************************)
TextChars == {" ", "a"}

Texts == UNION {[1..n -> TextChars] : n \in 0..MaxTextLen}

Stars == 1..MaxStar

RECURSIVE TrimStart(_)
TrimStart(t) == IF t # <<>> /\ Head(t) = " " THEN TrimStart(Tail(t)) ELSE t

RECURSIVE TrimEnd(_)
TrimEnd(t) == IF t # <<>> /\ t[Len(t)] = " " THEN TrimEnd(SubSeq(t, 1, Len(t) - 1)) ELSE t

\* a trim that removes nothing
TrimNone(t) == t

\* String.prototype.trim
Trim(t) == TrimEnd(TrimStart(t))

\* line 302: the closed modal renders nothing
ModalStep == mounted = "FeedbackModal" /\ isOpen

modalFrame == UNCHANGED <<mounted, onboardingVars, chatBarVars, messageVars, isOpen, conversation>>

\* line 242: nothing was rated and nothing was written
NothingToSubmit == helpfulnessRating = 0 /\ citationRating = 0 /\ Trim(feedbackText) = <<>>

\* a Submit button that looks at the ratings only
SubmitDisabledUnlessRated == helpfulnessRating = 0 /\ citationRating = 0

\* line 376: the disabled prop of the Submit button
SubmitDisabled == helpfulnessRating = 0 /\ citationRating = 0 /\ Trim(feedbackText) = <<>>

\* line 257: conversation || []
ConversationOrEmpty == IF conversation = <<>> THEN <<>> ELSE conversation[1]

ExtendedBody ==
  [type |-> "extended", helpfulnessRating |-> helpfulnessRating,
   citationRating |-> citationRating, feedbackText |-> feedbackText,
   conversation |-> ConversationOrEmpty]

\* a reset that forgets the hovered stars
ResetFieldsKeepingHover ==
  /\ helpfulnessRating' = 0
  /\ citationRating' = 0
  /\ feedbackText' = <<>>
  /\ UNCHANGED <<hoveredHelpfulStar, hoveredCitationStar>>

\* lines 267-271
ResetFields ==
  /\ helpfulnessRating' = 0
  /\ hoveredHelpfulStar' = 0
  /\ citationRating' = 0
  /\ hoveredCitationStar' = 0
  /\ feedbackText' = <<>>

\* lines 288 and 336: a click on a helpfulness star
setHelpfulnessRating(star) ==
  /\ ModalStep
  /\ helpfulnessRating' = star
  /\ Did("setHelpfulnessRating", ToString(star), <<>>, FALSE)
  /\ UNCHANGED <<hoveredHelpfulStar, citationRating, hoveredCitationStar, feedbackText, inFlight>>
  /\ modalFrame

\* lines 288 and 349: a click on a citation star
setCitationRating(star) ==
  /\ ModalStep
  /\ citationRating' = star
  /\ Did("setCitationRating", ToString(star), <<>>, FALSE)
  /\ UNCHANGED <<helpfulnessRating, hoveredHelpfulStar, hoveredCitationStar, feedbackText, inFlight>>
  /\ modalFrame

\* lines 289-290 and 337: the pointer enters (star > 0) or leaves (0) a helpfulness
\* star; the one pointer is over at most one star
setHoveredHelpfulStar(star) ==
  /\ ModalStep
  /\ IF star = 0 THEN hoveredHelpfulStar # 0
                 ELSE hoveredHelpfulStar = 0 /\ hoveredCitationStar = 0
  /\ hoveredHelpfulStar' = star
  /\ Did("setHoveredHelpfulStar", ToString(star), <<>>, FALSE)
  /\ UNCHANGED <<helpfulnessRating, citationRating, hoveredCitationStar, feedbackText, inFlight>>
  /\ modalFrame

\* lines 289-290 and 350: the same for a citation star
setHoveredCitationStar(star) ==
  /\ ModalStep
  /\ IF star = 0 THEN hoveredCitationStar # 0
                 ELSE hoveredHelpfulStar = 0 /\ hoveredCitationStar = 0
  /\ hoveredCitationStar' = star
  /\ Did("setHoveredCitationStar", ToString(star), <<>>, FALSE)
  /\ UNCHANGED <<helpfulnessRating, hoveredHelpfulStar, citationRating, feedbackText, inFlight>>
  /\ modalFrame

\* line 362: onChange={(e) => setFeedbackText(e.target.value)}
setFeedbackText(t) ==
  /\ ModalStep
  /\ feedbackText' = t
  /\ Did("setFeedbackText", "", <<>>, FALSE)
  /\ UNCHANGED <<helpfulnessRating, hoveredHelpfulStar, citationRating, hoveredCitationStar, inFlight>>
  /\ modalFrame

\* the controls whose onClick is handleClose: lines 309, 319 and 371
CloseControls == {"backdrop", "header", "cancel"}

\* a close that keeps the text for the next time the modal opens
handleCloseKeepingText(control) ==
  /\ ModalStep
  /\ helpfulnessRating' = 0 /\ hoveredHelpfulStar' = 0
  /\ citationRating' = 0 /\ hoveredCitationStar' = 0
  /\ UNCHANGED feedbackText
  /\ Did("handleClose", control, <<Callback("onClose", "")>>, FALSE)
  /\ UNCHANGED inFlight
  /\ modalFrame

\* lines 266-273, from the backdrop (309), the header button (319) or Cancel (371)
handleClose(control) ==
  /\ ModalStep
  /\ ResetFields
  /\ Did("handleClose", control, <<Callback("onClose", "")>>, FALSE)
  /\ UNCHANGED inFlight
  /\ modalFrame

\* lines 241-264
handleSubmit(sync) ==
  IF NothingToSubmit
  THEN /\ UNCHANGED <<modalFields, inFlight>>
       /\ Did("handleSubmit", "",
              <<Toast("error", "Please provide at least one rating or feedback")>>, FALSE)
  ELSE /\ inFlight' = Issued(sync) /\ Issued(sync) <= MaxInFlight
       /\ IF TryFetch(sync) = "completed"
          THEN /\ ResetFields
               /\ Did("handleSubmit", "",
                      <<Fetch("/api/feedback", ExtendedBody),
                        Toast("success", "Thank you for your feedback!"),
                        Callback("onClose", "")>>, FALSE)
          ELSE /\ UNCHANGED modalFields
               /\ Did("handleSubmit", "", <<Fetch("/api/feedback", ExtendedBody)>>, TRUE)

\* lines 374-380: the Submit Feedback button
ClickSubmit(sync) ==
  /\ ModalStep
  /\ ~SubmitDisabled
  /\ handleSubmit(sync)
  /\ modalFrame

\* handleSubmit reached although the button is disabled: the handler tests the
\* condition of the button again (lines 242-245)
SubmitWhileDisabled(sync) ==
  /\ ModalStep
  /\ SubmitDisabled
  /\ handleSubmit(sync)
  /\ modalFrame

\* the parent changes the isOpen prop (line 228)
ParentSetsIsOpen(v) ==
  /\ mounted = "FeedbackModal"
  /\ isOpen # v
  /\ isOpen' = v
  /\ Did("isOpen", ToString(v), <<>>, FALSE)
  /\ UNCHANGED <<mounted, onboardingVars, chatBarVars, messageVars, conversation, modalFields, inFlight>>

ModalNext ==
  \/ \E star \in Stars : setHelpfulnessRating(star)
  \/ \E star \in Stars : setCitationRating(star)
  \/ \E star \in 0..MaxStar : setHoveredHelpfulStar(star)
  \/ \E star \in 0..MaxStar : setHoveredCitationStar(star)
  \/ \E t \in Texts : setFeedbackText(t)
  \/ \E control \in CloseControls : handleClose(control)
  \/ \E sync \in SyncOutcomes : ClickSubmit(sync)
  \/ \E sync \in SyncOutcomes : SubmitWhileDisabled(sync)
  \/ \E v \in BOOLEAN : ParentSetsIsOpen(v)

(***************************************************************************)
(* The network settles a promise.  The only reaction any fetch of the      *)
(* repository attaches is .catch(() => {}): nothing runs on fulfilment,    *)
(* and the rejection handler does nothing.                                 *)
(***************************************************************************)
\* .catch(() => {})
CatchHandler(result) == <<>>

FetchSettles(result) ==
  /\ inFlight > 0
  /\ inFlight' = inFlight - 1
  /\ Did("fetchSettled", result, CatchHandler(result), FALSE)
  /\ UNCHANGED <<mounted, onboardingVars, chatBarVars, messageVars, modalVars>>

(***************************************************************************)
(* The state after the component is constructed and mounted.               *)
(***************************************************************************)
Components == {"Onboarding", "ChatBar", "ChatMessage", "FeedbackModal"}

Conversations ==
  { <<>>,                                               \* the prop is not supplied
    << <<>> >>,                                         \* an empty transcript
    << <<[role |-> "user", content |-> "Who wrote it?"],
         [role |-> "assistant", content |-> "Locke."]>> >> }

Init ==
  /\ mounted \in Components
  \* Onboarding, part_000 lines 25-28
  /\ currentStep = 1
  /\ consentGiven = FALSE
  /\ occupation = ""
  /\ ageRange = ""
  /\ consentPosted = FALSE
  /\ demographicsPosted = FALSE
  \* ChatBar, part_001 lines 36-37, and the first run of the effect of lines 57-72
  /\ open = FALSE
  /\ selected = <<CONTEXT_OPTIONS[1].id, CONTEXT_OPTIONS[2].id>>
  /\ selectedBefore = selected
  /\ selectedBefore2 = selected
  /\ hasOnContextChange \in (IF mounted = "ChatBar" THEN BOOLEAN ELSE {FALSE})
  /\ effectRuns = IF mounted = "ChatBar" THEN 1 ELSE 0
  /\ value \in (IF mounted = "ChatBar" THEN Drafts ELSE {<<>>})
  /\ isStreaming \in (IF mounted = "ChatBar" THEN OptBool ELSE {"undefined"})
  /\ listeners = IF mounted = "ChatBar" THEN EffectSetup({}, 1, FALSE) ELSE {}
  \* ChatMessage, ChatMessage.tsx lines 41-47
  /\ message \in (IF mounted = "ChatMessage" THEN Messages
                   ELSE {[id |-> "", role |-> "user", content |-> ""]})
  /\ isLastAssistantMessage \in (IF mounted = "ChatMessage" THEN BOOLEAN ELSE {FALSE})
  /\ hasOnOpenFeedback \in (IF mounted = "ChatMessage" THEN BOOLEAN ELSE {FALSE})
  /\ showFeedbackPrompt \in (IF mounted = "ChatMessage" THEN OptBool ELSE {"undefined"})
  /\ thumbsState = "null"
  /\ thumbsBefore = "null"
  /\ showPrompt = (showFeedbackPrompt = "true")
  /\ hasOnPromptHandled \in (IF mounted = "ChatMessage" THEN BOOLEAN ELSE {FALSE})
  /\ pending = [k \in PromiseKinds |-> 0]
  /\ dismissed = FALSE
  /\ dismissedSinceShown = FALSE
  /\ lastEvent = "none"
  \* FeedbackModal, ChatMessage.tsx lines 233-239
  /\ isOpen \in (IF mounted = "FeedbackModal" THEN BOOLEAN ELSE {FALSE})
  /\ conversation \in (IF mounted = "FeedbackModal" THEN Conversations ELSE {<<>>})
  /\ helpfulnessRating = 0
  /\ hoveredHelpfulStar = 0
  /\ citationRating = 0
  /\ hoveredCitationStar = 0
  /\ feedbackText = <<>>
  /\ inFlight = 0
  /\ lastOp = "mount"
  /\ lastArg = ""
  /\ prevOp = "mount"
  /\ prevArg = ""
  /\ calls = <<>>
  /\ uncaught = FALSE

NetworkNext == \E result \in Settlements : FetchSettles(result)

Next ==
  \/ ChatBarNext
  \/ OnboardingNext
  \/ MessageNext
  \/ ModalNext
  \/ NetworkNext

Spec == Init /\ [][Next]_vars

(***************************************************************************)
(* The components share nothing, so the behaviours of Spec are those of    *)
(* the specifications below taken together: one per mounted component,     *)
(* and one for the three components that use the network.                  *)
(***************************************************************************)
OnboardingInit == Init /\ mounted = "Onboarding"

OnboardingSpecNext == OnboardingNext \/ NetworkNext

OnboardingSpec == OnboardingInit /\ [][OnboardingSpecNext]_vars

ChatBarInit == Init /\ mounted = "ChatBar"

ChatBarSpec == ChatBarInit /\ [][ChatBarNext]_vars

ChatMessageInit == Init /\ mounted = "ChatMessage"

ChatMessageSpecNext == MessageNext \/ NetworkNext

ChatMessageSpec == ChatMessageInit /\ [][ChatMessageSpecNext]_vars

FeedbackModalInit == Init /\ mounted = "FeedbackModal"

FeedbackModalSpecNext == ModalNext \/ NetworkNext

FeedbackModalSpec == FeedbackModalInit /\ [][FeedbackModalSpecNext]_vars

NetworkInit == Init /\ mounted \in {"Onboarding", "ChatMessage", "FeedbackModal"}

NetworkSpecNext == OnboardingNext \/ MessageNext \/ ModalNext \/ NetworkNext

NetworkSpec == NetworkInit /\ [][NetworkSpecNext]_vars

(***************************************************************************)
(* The statements checked of the model.                                    *)
(***************************************************************************)
DefaultSelection == <<CONTEXT_OPTIONS[1].id, CONTEXT_OPTIONS[2].id>>

TwoToggleAlls == mounted = "ChatBar" /\ lastOp = "toggleAll" /\ prevOp = "toggleAll"

\* C1, as stated: after two toggle-alls in a row the selection is again the
\* selection S held before the first, for every S.
C1_ToggleAllTwiceRestores ==
  TwoToggleAlls => Elems(selected) = Elems(selectedBefore2)

\* C1, amended: two toggle-alls in a row give back S when S is empty or the whole
\* catalog, and leave the selection empty for every other (partial) S.
C1_ToggleAllTwice ==
  TwoToggleAlls =>
    IF Elems(selectedBefore2) = {} \/ Elems(selectedBefore2) = CatalogIdSet
    THEN Elems(selected) = Elems(selectedBefore2)
    ELSE selected = <<>>

\* two toggle-alls in a row from the default 2-item selection
C1_Witness ==
  TwoToggleAlls /\ selectedBefore2 = DefaultSelection /\ selected = <<>>

OnContextChangeCalls(cs) == Named(cs, "callback", "onContextChange")

\* C2: Confirm calls onContextChange exactly once (when the parent supplied it),
\* with the current selection, and leaves the panel closed; no other step of the
\* composer calls it.
C2_OnlyConfirmPropagates ==
  mounted \in {"ChatBar", "none"} =>
    /\ lastOp = "confirm" =>
         /\ ~open
         /\ calls = IF hasOnContextChange
                    THEN <<[kind |-> "callback", name |-> "onContextChange", arg |-> selected]>>
                    ELSE <<>>
    /\ lastOp # "confirm" => OnContextChangeCalls(calls) = <<>>

\* select-all from the default selection, then Confirm: one call with the 12 ids
C2_Witness ==
  /\ mounted = "ChatBar" /\ lastOp = "confirm" /\ prevOp = "toggleAll"
  /\ selectedBefore2 = DefaultSelection
  /\ Len(calls) = 1 /\ calls[1].name = "onContextChange"
  /\ calls[1].arg = CatalogIds /\ Len(calls[1].arg) = 12
  /\ ~open

ClosedWithoutConfirm(op, arg) ==
  op = "clickOutside" \/ (op = "keydown" /\ arg = "Escape")

\* C3: an outside click or Escape leaves the panel closed, calls nothing and keeps
\* the selection; the panel reopened right after shows that same selection.
C3_CloseKeepsSelection ==
  mounted = "ChatBar" =>
    /\ ClosedWithoutConfirm(lastOp, lastArg) =>
         ~open /\ calls = <<>> /\ selected = selectedBefore
    /\ (lastOp = "toggleOpen" /\ ClosedWithoutConfirm(prevOp, prevArg)) =>
         open /\ calls = <<>> /\ selected = selectedBefore2

\* a toggled, never confirmed selection is still there after Escape and a reopen
C3_Witness ==
  /\ mounted = "ChatBar" /\ lastOp = "toggleOpen" /\ prevOp = "keydown" /\ prevArg = "Escape"
  /\ open /\ selected # DefaultSelection /\ selected = selectedBefore2

ListenersOf(type) == {l \in listeners : l.type = type}

\* C4: at most one click and one keydown listener of the component is registered
\* at any time, the registered ones are those of the latest run of the effect
\* (every earlier registration was torn down), and none is left after unmount.
C4_ListenersPaired ==
  /\ Cardinality(ListenersOf("click")) <= 1
  /\ Cardinality(ListenersOf("keydown")) <= 1
  /\ \A l \in listeners : l.gen = effectRuns
  /\ mounted = "none" => listeners = {}

\* unmounted after the panel was opened and closed again
C4_Witness == mounted = "none" /\ effectRuns >= 3 /\ ~open /\ listeners = {}

FetchCalls(cs) == OfKind(cs, "fetch")

OnCompleteCalls(cs) == Named(cs, "callback", "onComplete")

\* C6: Continue on the consent step (consent checked) sends exactly one onboarding
\* POST of type "consent" and shows step 2; Continue to Library sends exactly one
\* POST of type "demographics" with the chosen occupation and ageRange and then
\* calls onComplete exactly once, the POST first.
C6_OnboardingScenario ==
  [][ /\ (lastOp' = "handleConsentContinue" /\ consentGiven) =>
           /\ currentStep = 1 /\ currentStep' = 2
           /\ Len(calls') = 1
           /\ calls'[1].kind = "fetch" /\ calls'[1].name = "/api/onboarding"
           /\ calls'[1].arg.type = "consent" /\ calls'[1].arg.consent = "accepted"
      /\ lastOp' = "handleDemographicContinue" =>
           /\ occupation # "" /\ ageRange # ""
           /\ Len(calls') = 2
           /\ calls'[1].kind = "fetch" /\ calls'[1].name = "/api/onboarding"
           /\ calls'[1].arg.type = "demographics"
           /\ calls'[1].arg.occupation = occupation /\ calls'[1].arg.ageRange = ageRange
           /\ calls'[2] = [kind |-> "callback", name |-> "onComplete", arg |-> ""]
    ]_vars

\* the scenario of the specification: student, 25-34, Continue to Library
C6_Witness ==
  /\ mounted = "Onboarding" /\ lastOp = "handleDemographicContinue" /\ currentStep = 2
  /\ occupation = "student" /\ ageRange = "25-34"
  /\ Len(FetchCalls(calls)) = 1 /\ calls[1].arg.occupation = "student"
  /\ calls[1].arg.ageRange = "25-34"
  /\ Len(OnCompleteCalls(calls)) = 1

\* C7: the step starts at 1 and is always 1 or 2; it changes only from 1 to 2, in
\* the consent Continue handler and with consentGiven true; it never returns to
\* 1; onComplete is called only while the step is 2.
C7_StepMachine ==
  /\ currentStep = 1
  /\ [](currentStep \in {1, 2})
  /\ [](OnCompleteCalls(calls) # <<>> => currentStep = 2)
  /\ [][ /\ (currentStep' # currentStep) =>
              /\ currentStep = 1 /\ currentStep' = 2
              /\ consentGiven /\ lastOp' = "handleConsentContinue"
         /\ (OnCompleteCalls(calls') # <<>>) => (currentStep = 2)
       ]_vars

\* the wizard, completed on step 2
C7_Witness ==
  mounted = "Onboarding" /\ currentStep = 2 /\ consentGiven /\ OnCompleteCalls(calls) # <<>>

\* the handlers that send a network event, and the settling of its promise
NetworkOps ==
  {"handleConsentContinue", "handleDemographicContinue", "handleThumbsUp",
   "handleThumbsDown", "handleSubmit", "fetchSettled"}

\* C8: what a handler that sends a network event leaves behind (state, callbacks,
\* the one request) is fixed by the state before it, whether fetch throws, or its
\* promise is fulfilled or rejected; nothing escapes; a settled promise changes
\* nothing and sends nothing again.
C8_Step ==
  /\ lastOp' \in NetworkOps => uncaught' = FALSE
  /\ (lastOp' = "handleConsentContinue" /\ consentGiven) =>
       /\ currentStep' = 2
       /\ UNCHANGED <<consentGiven, occupation, ageRange>>
       /\ Len(calls') = 1 /\ Len(FetchCalls(calls')) = 1
  /\ lastOp' = "handleDemographicContinue" =>
       /\ UNCHANGED <<currentStep, consentGiven, occupation, ageRange>>
       /\ Len(calls') = 2 /\ Len(FetchCalls(calls')) = 1 /\ Len(OnCompleteCalls(calls')) = 1
  /\ lastOp' = "handleThumbsUp" =>
       /\ thumbsState' = (IF thumbsState = "up" THEN "null" ELSE "up")
       /\ showPrompt' = (thumbsState # "up")
       /\ Len(calls') = 2 /\ Len(FetchCalls(calls')) = 1 /\ Len(OfKind(calls', "toast")) = 1
  /\ lastOp' = "handleThumbsDown" =>
       /\ thumbsState' = (IF thumbsState = "down" THEN "null" ELSE "down")
       /\ showPrompt' = (thumbsState # "down")
       /\ Len(calls') = 2 /\ Len(FetchCalls(calls')) = 1 /\ Len(OfKind(calls', "toast")) = 1
  /\ (lastOp' = "handleSubmit" /\ ~NothingToSubmit) =>
       /\ helpfulnessRating' = 0 /\ citationRating' = 0 /\ feedbackText' = <<>>
       /\ hoveredHelpfulStar' = 0 /\ hoveredCitationStar' = 0
       /\ Len(calls') = 3 /\ Len(FetchCalls(calls')) = 1
       /\ Len(Named(calls', "callback", "onClose")) = 1
  /\ lastOp' = "fetchSettled" =>
       /\ calls' = <<>>
       /\ UNCHANGED <<mounted, onboardingVars, chatBarVars, messageVars, modalVars>>

\* C8: every step leaves what C8_Step says, whatever the outcome of its fetch.
C8_FireAndForget == [][C8_Step]_vars

\* the demographics POST threw (no promise is in flight) and onComplete was called
C8_Witness ==
  /\ mounted = "Onboarding" /\ lastOp = "handleDemographicContinue" /\ inFlight = 0
  /\ Len(FetchCalls(calls)) = 1 /\ Len(OnCompleteCalls(calls)) = 1

ThumbHandler(d) == IF d = "up" THEN "handleThumbsUp" ELSE "handleThumbsDown"

ThumbType(d) == IF d = "up" THEN "thumbs_up" ELSE "thumbs_down"

\* C9: from a thumbs state other than d, selecting d sets thumbsState to d and
\* sends one event with action d, the message id and the content; selecting d
\* again sets thumbsState to null, hides the inline prompt and sends one "remove"
\* event for the message.
C9_Step(d) ==
  lastOp' = ThumbHandler(d) =>
    IF thumbsState # d
    THEN /\ thumbsState' = d
         /\ FetchCalls(calls') =
              <<[kind |-> "fetch", name |-> "/api/feedback",
                 arg |-> [action |-> d, messageId |-> message.id, message |-> message.content]]>>
    ELSE /\ thumbsState' = "null"
         /\ ~showPrompt' /\ ~PromptVisible'
         /\ FetchCalls(calls') =
              <<[kind |-> "fetch", name |-> "/api/feedback",
                 arg |-> [action |-> "remove", type |-> ThumbType(d), messageId |-> message.id]]>>

\* C9: the round trip of a thumb, for both directions, at every step.
C9_ThumbRoundTrip == [][C9_Step("up") /\ C9_Step("down")]_vars

\* thumbs-up selected and selected again, on a message that showed the prompt
C9_Witness ==
  /\ mounted = "ChatMessage" /\ lastOp = "handleThumbsUp"
  /\ thumbsBefore = "up" /\ thumbsState = "null"
  /\ isLastAssistantMessage /\ hasOnOpenFeedback /\ showFeedbackPrompt # "false"
  /\ ~PromptVisible
  /\ Len(FetchCalls(calls)) = 1 /\ FetchCalls(calls)[1].arg.action = "remove"

Opposite(d) == IF d = "up" THEN "down" ELSE "up"

\* C10: selecting the thumb opposite to the active one overwrites thumbsState and
\* sends exactly one event, the fresh "up" or "down"; no "remove" is sent.
C10_Step(d) ==
  (lastOp' = ThumbHandler(d) /\ thumbsState = Opposite(d)) =>
    /\ thumbsState' = d
    /\ Len(FetchCalls(calls')) = 1
    /\ FetchCalls(calls')[1].arg.action = d
    /\ \A i \in 1..Len(calls') :
         (calls'[i].kind = "fetch") => (calls'[i].arg.action # "remove")

\* C10: a switch of direction sends one event and no "remove", both ways, at every step.
C10_SwitchSendsOneEvent == [][C10_Step("up") /\ C10_Step("down")]_vars

\* thumbs-down selected while thumbs-up was active
C10_Witness ==
  /\ mounted = "ChatMessage" /\ lastOp = "handleThumbsDown"
  /\ thumbsBefore = "up" /\ thumbsState = "down"
  /\ Len(FetchCalls(calls)) = 1 /\ FetchCalls(calls)[1].arg.action = "down"

TwoTogglesOfOneId ==
  /\ mounted = "ChatBar" /\ lastOp = "toggleOption" /\ prevOp = "toggleOption"
  /\ lastArg = prevArg

\* C17: for every selection S and every catalog id x, toggling x twice in a row
\* gives back S, as a set (the order of the array may change).
C17_ToggleTwiceRestores ==
  TwoTogglesOfOneId => Elems(selected) = Elems(selectedBefore2)

\* an id of S toggled twice: same set, the id now at the end of the array
C17_Witness ==
  /\ TwoTogglesOfOneId /\ Includes(selectedBefore2, lastArg)
  /\ selected # selectedBefore2 /\ Elems(selected) = Elems(selectedBefore2)

\* C18: toggle-all empties the selection when every catalog id is selected, and
\* selects the whole 12-id catalog in every other case.
C18_ToggleAll ==
  (mounted = "ChatBar" /\ lastOp = "toggleAll") =>
    selected = IF Elems(selectedBefore) = CatalogIdSet THEN <<>> ELSE CatalogIds

\* toggle-all on the whole catalog, reached by a toggle-all on a partial selection
C18_Witness ==
  /\ TwoToggleAlls /\ selected = <<>>
  /\ selectedBefore = CatalogIds /\ Len(selectedBefore) = 12
  /\ Elems(selectedBefore2) # CatalogIdSet /\ selectedBefore2 # <<>>

NoDuplicates(arr) == \A i, j \in 1..Len(arr) : arr[i] = arr[j] => i = j

\* C19: the selection is always a duplicate-free subset of the 12 catalog ids, so
\* the test of line 43 (size = catalog size) is true exactly when every id is
\* selected; the initial selection is the first two catalog entries.
C19_SelectionWellFormed ==
  /\ NoDuplicates(selected)
  /\ Elems(selected) \subseteq CatalogIdSet
  /\ Cardinality(CatalogIdSet) = 12
  /\ allSelected <=> Elems(selected) = CatalogIdSet
  /\ lastOp = "mount" => selected = <<CatalogIds[1], CatalogIds[2]>>

\* an id removed from the whole catalog and added back: 12 distinct ids again
C19_Witness ==
  /\ TwoTogglesOfOneId /\ selectedBefore2 = CatalogIds
  /\ Len(selectedBefore) = 11 /\ Len(selected) = 12 /\ allSelected

\* a text without any character other than white space (the empty text included)
Blank(t) == \A i \in 1..Len(t) : t[i] = " "

SubmitErrorToast ==
  [kind |-> "toast", name |-> "error", arg |-> "Please provide at least one rating or feedback"]

\* C12: the Submit button is disabled exactly when both ratings are 0 and the
\* trimmed text is empty; handleSubmit run in that condition raises the error
\* notification and nothing else: no feedback event, no onClose, ratings, hovers
\* and text unchanged.
C12_GuardedSubmit ==
  /\ [](mounted = "FeedbackModal" =>
          (SubmitDisabled <=>
             (helpfulnessRating = 0 /\ citationRating = 0 /\ Blank(feedbackText))))
  /\ [][ (lastOp' = "handleSubmit" /\ helpfulnessRating = 0 /\ citationRating = 0
            /\ Blank(feedbackText)) =>
           /\ calls' = <<SubmitErrorToast>>
           /\ UNCHANGED <<modalFields, isOpen, inFlight>>
           /\ uncaught' = FALSE
       ]_vars

\* handleSubmit refused a text of white space only
C12_Witness ==
  /\ mounted = "FeedbackModal" /\ lastOp = "handleSubmit" /\ calls = <<SubmitErrorToast>>
  /\ helpfulnessRating = 0 /\ citationRating = 0 /\ feedbackText = <<" ">>
  /\ SubmitDisabled

\* C13, as stated: submit is blocked exactly in the default state (0, 0, ""):
\* any feedbackText other than the empty string allows it.
C13_AnyTextAllows ==
  mounted = "FeedbackModal" =>
    (SubmitDisabled <=>
       (helpfulnessRating = 0 /\ citationRating = 0 /\ feedbackText = <<>>))

Permitted ==
  \/ helpfulnessRating > 0
  \/ citationRating > 0
  \/ \E i \in 1..Len(feedbackText) : feedbackText[i] # " "

\* C13, amended: submit is blocked (button disabled, handler sends nothing) when
\* both ratings are 0 and the text is empty or white space only, and allowed
\* (button enabled, handler sends the event) when a rating is above 0 or the text
\* has a character other than white space.
C13_SubmitAllowed ==
  /\ [](mounted = "FeedbackModal" => (SubmitDisabled <=> ~Permitted))
  /\ [][ lastOp' = "handleSubmit" =>
           (Permitted <=> Len(FetchCalls(calls')) = 1) /\ (~Permitted <=> FetchCalls(calls') = <<>>)
       ]_vars

\* a submit allowed by the text alone, sent with its leading white space
C13_Witness ==
  /\ mounted = "FeedbackModal" /\ lastOp = "handleSubmit"
  /\ Len(FetchCalls(calls)) = 1
  /\ FetchCalls(calls)[1].arg.helpfulnessRating = 0
  /\ FetchCalls(calls)[1].arg.citationRating = 0
  /\ FetchCalls(calls)[1].arg.feedbackText = <<" ", "a">>

\* C14: a permitted submit sends exactly one "extended" event with the two
\* ratings, the text and the whole conversation (the empty list when the parent
\* supplied none); after it both ratings, both hovers and the text are back to
\* their defaults and onClose was called exactly once.
C14_PermittedSubmit ==
  [][ (lastOp' = "handleSubmit" /\ Permitted) =>
        /\ FetchCalls(calls') =
             <<[kind |-> "fetch", name |-> "/api/feedback",
                arg |-> [type |-> "extended",
                         helpfulnessRating |-> helpfulnessRating,
                         citationRating |-> citationRating,
                         feedbackText |-> feedbackText,
                         conversation |-> IF conversation = <<>> THEN <<>>
                                          ELSE conversation[1]]]>>
        /\ helpfulnessRating' = 0 /\ citationRating' = 0
        /\ hoveredHelpfulStar' = 0 /\ hoveredCitationStar' = 0
        /\ feedbackText' = <<>>
        /\ Len(Named(calls', "callback", "onClose")) = 1
        /\ calls'[Len(calls')] = [kind |-> "callback", name |-> "onClose", arg |-> ""]
    ]_vars

\* a rated submit with a two-message conversation, the fields reset after it
C14_Witness ==
  /\ mounted = "FeedbackModal" /\ lastOp = "handleSubmit"
  /\ Len(FetchCalls(calls)) = 1
  /\ FetchCalls(calls)[1].arg.helpfulnessRating = 2
  /\ Len(FetchCalls(calls)[1].arg.conversation) = 2
  /\ helpfulnessRating = 0 /\ citationRating = 0 /\ feedbackText = <<>>
  /\ hoveredHelpfulStar = 0 /\ hoveredCitationStar = 0
  /\ Len(Named(calls, "callback", "onClose")) = 1

\* the prompt is on screen: an assistant message is rendered (line 121) and the
\* condition of line 199 holds
PromptOnScreen == mounted = "ChatMessage" /\ message.role = "assistant" /\ PromptVisible

\* C11, as stated: the inline prompt is visible only if the message is flagged as
\* the latest assistant message, onOpenFeedback is supplied, showFeedbackPrompt
\* is not false, and the prompt was not dismissed (Dismiss or Give Feedback)
\* earlier in this mount.
C11_NeverAfterDismiss ==
  PromptOnScreen =>
    /\ isLastAssistantMessage /\ hasOnOpenFeedback /\ showFeedbackPrompt # "false"
    /\ ~dismissed

\* C11, amended: the inline prompt is visible only if the message is flagged as
\* the latest assistant message, onOpenFeedback is supplied, showFeedbackPrompt
\* is not false, and the prompt was not dismissed (Dismiss or Give Feedback)
\* since it was last set to show: at mount with showFeedbackPrompt true, by
\* showFeedbackPrompt turning true, or by a fresh thumbs selection.
C11_PromptVisibleOnlyIf ==
  PromptOnScreen =>
    /\ isLastAssistantMessage /\ hasOnOpenFeedback /\ showFeedbackPrompt # "false"
    /\ ~dismissedSinceShown

\* the prompt, dismissed once, is on screen again after a fresh thumbs-up
C11_Witness ==
  /\ mounted = "ChatMessage" /\ lastOp = "handleThumbsUp" /\ thumbsState = "up"
  /\ dismissed /\ ~dismissedSinceShown /\ PromptOnScreen

\* C15, as stated: no handler lets a failure of an external call escape: a throw
\* or a rejection of any fetch, native-share or clipboard-write call is caught.
C15_NoFailureEscapes == uncaught = FALSE

ShareFallbackWrite ==
  [kind |-> "clipboard", name |-> "writeText",
   arg |-> <<PageUrl, "\n\n", message.content>>]

ShareFallbackError == [kind |-> "toast", name |-> "error", arg |-> "Unable to copy share text"]

ShareFallbackSuccess ==
  [kind |-> "toast", name |-> "success", arg |-> "Share text copied to clipboard"]

\* C16, as stated: share tries the native share first; when it is unavailable or
\* throws, the page URL, a blank line and the message text are written to the
\* clipboard, with the fallback-success notification if the write succeeds and
\* the fallback-error notification if it fails (it throws, or its promise is
\* rejected); the native path raises its own notification and writes nothing.
C16_Step ==
  /\ lastOp' = "handleShare" =>
       IF pending'["share"] = pending["share"] + 1
       THEN /\ calls' = <<NativeShare(message.content),
                          [kind |-> "toast", name |-> "success", arg |-> "Opened share dialog"]>>
            /\ OfKind(calls', "clipboard") = <<>>
       ELSE /\ OfKind(calls', "clipboard") = <<ShareFallbackWrite>>
            /\ IF pending'["shareCopy"] = pending["shareCopy"] + 1
               THEN OfKind(calls', "toast") = <<>>
               ELSE OfKind(calls', "toast") = <<ShareFallbackError>>
  /\ lastOp' = "shareCopySettled" =>
       calls' = IF lastArg' = "fulfilled" THEN <<ShareFallbackSuccess>>
                ELSE <<ShareFallbackError>>

\* C16: the share routing and its notifications, at every step.
C16_ShareFallback == [][C16_Step]_vars

OnSendCalls(cs) == Named(cs, "callback", "onSend")

\* C20: in the composer's textarea, Enter without Shift calls onSend exactly once
\* and suppresses the newline (the default action is prevented, onChange is not
\* called, the draft is unchanged); Enter with Shift calls onSend zero times and
\* lets the newline be inserted (the default action runs: onChange receives the
\* draft with a newline appended).
C20_EnterSends ==
  [][ /\ (lastOp' = "textareaKeyDown" /\ lastArg' = "Enter") =>
           /\ Len(OnSendCalls(calls')) = 1
           /\ Named(calls', "event", "preventDefault") # <<>>
           /\ Named(calls', "callback", "onChange") = <<>>
           /\ value' = value
      /\ (lastOp' = "textareaKeyDown" /\ lastArg' = "Shift+Enter") =>
           /\ OnSendCalls(calls') = <<>>
           /\ Named(calls', "event", "preventDefault") = <<>>
           /\ calls' = <<[kind |-> "callback", name |-> "onChange",
                          arg |-> value \o <<"\n">>]>>
    ]_vars

\* Shift+Enter on the draft "a" right after an Enter that sent it
C20_Witness ==
  /\ mounted = "ChatBar" /\ lastOp = "textareaKeyDown" /\ lastArg = "Shift+Enter"
  /\ prevOp = "textareaKeyDown" /\ prevArg = "Enter"
  /\ value = <<"a">>
  /\ calls = <<[kind |-> "callback", name |-> "onChange", arg |-> <<"a", "\n">>]>>

\* C22: on step 1 the Continue button is enabled exactly when consentGiven is
\* true, and handleConsentContinue run with consentGiven false changes nothing
\* (the step stays 1) and sends nothing.
C22_ConsentGate ==
  /\ []((mounted = "Onboarding" /\ currentStep = 1) =>
          (~ConsentContinueDisabled <=> consentGiven = TRUE))
  /\ [][ (lastOp' = "handleConsentContinue" /\ ~consentGiven) =>
           /\ currentStep' = 1 /\ currentStep = 1
           /\ UNCHANGED <<consentGiven, occupation, ageRange, inFlight, consentPosted>>
           /\ calls' = <<>>
           /\ uncaught' = FALSE
       ]_vars

\* the handler ran on step 1 without consent and left the wizard where it was
C22_Witness ==
  /\ mounted = "Onboarding" /\ lastOp = "handleConsentContinue"
  /\ ~consentGiven /\ ConsentContinueDisabled
  /\ currentStep = 1 /\ calls = <<>> /\ ~consentPosted /\ inFlight = 0

\* C23: on step 2 the Continue to Library button is enabled exactly when both
\* occupation and ageRange are non-empty strings.
C23_DemographicsGate ==
  (mounted = "Onboarding" /\ currentStep = 2) =>
    (~DemographicContinueDisabled <=> (occupation # "" /\ ageRange # ""))

\* step 2 with an occupation chosen and no age range: the button is disabled
C23_Witness ==
  /\ mounted = "Onboarding" /\ currentStep = 2
  /\ occupation = "student" /\ ageRange = "" /\ DemographicContinueDisabled

PostsOfType(cs, type) ==
  SelectSeq(cs, LAMBDA c : c.kind = "fetch" /\ c.name = "/api/onboarding" /\ c.arg.type = type)

\* C28: a "demographics" POST is always preceded by a "consent" POST and carries
\* a non-empty occupation and a non-empty ageRange; every onComplete call is
\* preceded by a "demographics" POST; Continue to Library pressed again on the
\* mounted component sends another POST and calls onComplete another time.
C28_Step ==
  /\ PostsOfType(calls', "demographics") # <<>> =>
       /\ consentPosted
       /\ \A i \in 1..Len(calls') :
            (calls'[i].kind = "fetch" /\ calls'[i].arg.type = "demographics") =>
              (calls'[i].arg.occupation # "" /\ calls'[i].arg.ageRange # "")
  /\ \A i \in 1..Len(calls') :
       (calls'[i].kind = "callback" /\ calls'[i].name = "onComplete") =>
         (\E j \in 1..(i - 1) :
            calls'[j].kind = "fetch" /\ calls'[j].arg.type = "demographics")
  /\ (lastOp' = "handleDemographicContinue" /\ demographicsPosted) =>
       /\ Len(PostsOfType(calls', "demographics")) = 1
       /\ Len(OnCompleteCalls(calls')) = 1

\* C28: the ordering of the wizard's events and the repeat, at every step.
C28_WizardOrder == [][C28_Step]_vars

\* Continue to Library pressed a second time: another POST, another onComplete
C28_Witness ==
  /\ mounted = "Onboarding" /\ lastOp = "handleDemographicContinue"
  /\ consentPosted /\ demographicsPosted /\ inFlight = 2
  /\ Len(PostsOfType(calls, "demographics")) = 1 /\ Len(OnCompleteCalls(calls)) = 1

\* C26: every close of the feedback modal other than submit (Cancel, the header
\* button, a click on the backdrop) resets both ratings, both hovers and the text,
\* calls onClose exactly once and sends no feedback event, whatever the fields
\* held before.
C26_CloseResets ==
  [][ lastOp' = "handleClose" =>
        /\ lastArg' \in {"backdrop", "header", "cancel"}
        /\ helpfulnessRating' = 0 /\ hoveredHelpfulStar' = 0
        /\ citationRating' = 0 /\ hoveredCitationStar' = 0
        /\ feedbackText' = <<>>
        /\ calls' = <<[kind |-> "callback", name |-> "onClose", arg |-> ""]>>
        /\ inFlight' = inFlight
    ]_vars

\* the backdrop clicked on a modal from which nothing was ever sent
C26_Witness ==
  /\ mounted = "FeedbackModal" /\ lastOp = "handleClose" /\ lastArg = "backdrop"
  /\ helpfulnessRating = 0 /\ citationRating = 0 /\ feedbackText = <<>>
  /\ hoveredHelpfulStar = 0 /\ hoveredCitationStar = 0
  /\ Len(Named(calls, "callback", "onClose")) = 1 /\ FetchCalls(calls) = <<>>
  /\ inFlight = 0

OnPromptHandledCall == [kind |-> "callback", name |-> "onPromptHandled", arg |-> ""]

OnOpenFeedbackCall == [kind |-> "callback", name |-> "onOpenFeedback", arg |-> ""]

\* C24: Dismiss and Give Feedback each hide the prompt and call onPromptHandled
\* exactly once (the prop is optional: once when the parent supplied it); Give
\* Feedback calls onOpenFeedback exactly once, before onPromptHandled; Dismiss
\* never calls onOpenFeedback.
C24_PromptButtons ==
  mounted = "ChatMessage" =>
    /\ lastOp = "dismiss" =>
         /\ ~showPrompt /\ ~PromptOnScreen
         /\ calls = IF hasOnPromptHandled THEN <<OnPromptHandledCall>> ELSE <<>>
    /\ lastOp = "giveFeedback" =>
         /\ ~showPrompt /\ ~PromptOnScreen
         /\ calls = <<OnOpenFeedbackCall>>
                      \o (IF hasOnPromptHandled THEN <<OnPromptHandledCall>> ELSE <<>>)

\* Give Feedback with both callbacks supplied: the modal first, then the parent
C24_Witness ==
  /\ mounted = "ChatMessage" /\ lastOp = "giveFeedback" /\ hasOnPromptHandled
  /\ calls = <<OnOpenFeedbackCall, OnPromptHandledCall>>
  /\ dismissed /\ ~PromptOnScreen

AfterThumb ==
  /\ mounted = "ChatMessage" /\ lastOp \in {"handleThumbsUp", "handleThumbsDown"}
  /\ isLastAssistantMessage /\ hasOnOpenFeedback

\* C25, as stated: on the latest assistant message with onOpenFeedback supplied, a
\* fresh thumbs selection makes the prompt visible and toggling it off hides it.
C25_ThumbsShowPrompt ==
  AfterThumb =>
    /\ thumbsState # "null" => PromptOnScreen
    /\ thumbsState = "null" => ~PromptOnScreen

\* C25, amended: on the latest assistant message with onOpenFeedback supplied and
\* showFeedbackPrompt not false, a fresh thumbs selection makes the prompt
\* visible; with showFeedbackPrompt false the prompt stays hidden; toggling the
\* active thumb off hides the prompt in every case.
C25_ThumbsShowPromptUnlessSuppressed ==
  AfterThumb =>
    /\ (thumbsState # "null" /\ showFeedbackPrompt # "false") => PromptOnScreen
    /\ (thumbsState # "null" /\ showFeedbackPrompt = "false") => ~PromptOnScreen
    /\ thumbsState = "null" => ~PromptOnScreen

\* a fresh thumbs-down shows the prompt of a message whose parent passed no
\* showFeedbackPrompt
C25_Witness ==
  /\ AfterThumb /\ lastOp = "handleThumbsDown" /\ thumbsState = "down"
  /\ showFeedbackPrompt = "undefined" /\ PromptOnScreen

\* C27: thumbsState mirrors the last thumbs event sent: "up" (resp. "down")
\* exactly when that event has action "up" (resp. "down"), null exactly when none
\* was sent yet or the last one was a "remove"; a "remove" carries the type of
\* the up/down event right before it, is never first and never follows a "remove".
C27_ThumbsMirrorEvents ==
  /\ [](mounted = "ChatMessage" =>
          /\ thumbsState = "up" <=> lastEvent = "up"
          /\ thumbsState = "down" <=> lastEvent = "down"
          /\ thumbsState = "null" <=> lastEvent \in {"none", "remove"})
  /\ [][ \A i \in 1..Len(calls') :
           (calls'[i].kind = "fetch" /\ calls'[i].arg.action = "remove") =>
             /\ Len(FetchCalls(calls')) = 1
             /\ lastEvent \in {"up", "down"}
             /\ calls'[i].arg.type = (IF lastEvent = "up" THEN "thumbs_up" ELSE "thumbs_down")
       ]_vars

\* up, then down, then down again: the "remove" of a thumbs_down
C27_Witness ==
  /\ mounted = "ChatMessage" /\ lastOp = "handleThumbsDown" /\ thumbsBefore = "down"
  /\ thumbsState = "null" /\ lastEvent = "remove"
  /\ FetchCalls(calls)[1].arg.type = "thumbs_down"

OnStopCalls(cs) == Named(cs, "callback", "onStop")

\* C21: a click on the trailing control calls onStop (once when the parent
\* supplied it) and not onSend when isStreaming is true, and calls onSend once
\* and not onStop when isStreaming is false or absent; the calls are a function
\* of the isStreaming prop at the time of the click, whatever happened before.
C21_TrailingControl ==
  [][ lastOp' = "clickTrailing" =>
        /\ isStreaming = "true" =>
             /\ OnSendCalls(calls') = <<>>
             /\ Len(OnStopCalls(calls')) = (IF lastArg' = "Stop" THEN 1 ELSE 0)
             /\ Len(calls') = Len(OnStopCalls(calls'))
             /\ lastArg' \in {"Stop", "Stop without onStop"}
        /\ isStreaming \in {"false", "undefined"} =>
             /\ calls' = <<[kind |-> "callback", name |-> "onSend", arg |-> ""]>>
             /\ lastArg' = "Send"
        /\ isStreaming' = isStreaming
    ]_vars

\* Stop clicked right after the parent turned isStreaming on, after a Send
C21_Witness ==
  /\ mounted = "ChatBar" /\ lastOp = "clickTrailing" /\ lastArg = "Stop"
  /\ prevOp = "isStreaming" /\ isStreaming = "true"
  /\ calls = <<[kind |-> "callback", name |-> "onStop", arg |-> ""]>>

\* C29: Enter without Shift in the textarea calls onSend exactly once and never
\* onStop, whatever isStreaming and the draft are: also while isStreaming is
\* true (the trailing control shows Stop) and while the draft is empty.
C29_EnterSendsRegardless ==
  [][ (lastOp' = "textareaKeyDown" /\ lastArg' = "Enter") =>
        /\ Len(OnSendCalls(calls')) = 1
        /\ OnStopCalls(calls') = <<>>
        /\ isStreaming' = isStreaming /\ value' = value
    ]_vars

\* Enter on an empty draft while streaming
C29_Witness ==
  /\ mounted = "ChatBar" /\ lastOp = "textareaKeyDown" /\ lastArg = "Enter"
  /\ isStreaming = "true" /\ value = <<>>
  /\ Len(OnSendCalls(calls)) = 1 /\ OnStopCalls(calls) = <<>>

====
